---------------------------- MODULE Spec2Model ----------------------------
(***************************************************************************)
(* PowerToys Text Extractor -> text to speech.                             *)
(*                                                                         *)
(* Model of src/src/powertoys_text_to_speech_edge.py:                      *)
(*   - get_clipboard_text, tidy_text, wait_for_clip_change                 *)
(*   - SapiNaturalSpeaker (speak, _run: voice selection and worker loop)   *)
(*   - main.on_hotkey                                                      *)
(*                                                                         *)
(* Text is a sequence of one-character strings, so that the string         *)
(* operations of the program (strip, replace, re.sub, lower, in) are       *)
(* computed character by character as Python computes them.  Python's None *)
(* is the value None below.                                                *)
(*                                                                         *)
(* Time is counted in ticks, TicksPerPoll ticks to one                     *)
(* POLL_INTERVAL_SECONDS.  Timing is the ideal one the watcher's stated    *)
(* properties assume: a clipboard read and a comparison take no time and   *)
(* time.sleep returns exactly when the interval has passed.                *)
(***************************************************************************)
EXTENDS Naturals, Sequences, FiniteSets, TLC

VARIABLES
    \* the OS clipboard (environment) and the count of writes to it
    clip, clipVer,
    \* one entry per on_hotkey / wait_for_clip_change invocation
    hpc, baseline, timeout, elapsed, sleepLeft, new_text,
    \* history of the invocations (not read by the program)
    polls, readFailed, clipAtCapture, verSeen, enq, chg,
    \* SapiNaturalSpeaker
    q, wpc, tokens, matchCfg, match, idx, selected, engineVoice, tuned, txt,
    \* history of the speaker (not read by the program)
    spoken, submitted, lastCall, ncalls, speakRaised,
    \* a caller of tidy_text
    tidyPc, tidyIn, tidyOut, tidyOut2

cvars == <<clip, clipVer>>
hvars == <<hpc, baseline, timeout, elapsed, sleepLeft, new_text,
           polls, readFailed, clipAtCapture, verSeen, enq, chg>>
qvars == <<q, lastCall, ncalls, submitted>>
wvars == <<wpc, tokens, matchCfg, match, idx, selected, engineVoice, tuned, txt,
           spoken, speakRaised>>
tvars == <<tidyPc, tidyIn, tidyOut, tidyOut2>>
vars  == <<cvars, hvars, qvars, wvars, tvars>>

----------------------------------------------------------------------------
(* Bounds of the model *)

\* longest input handed to tidy_text by its stand-alone caller
MaxLen == 4
\* ticks in one poll interval (time resolution)
TicksPerPoll == 2
\* poll intervals in on_hotkey's wait window.  The program waits
\* CLIPBOARD_WAIT_SECONDS / POLL_INTERVAL_SECONDS = 150 intervals; the model
\* keeps the window at WaitPolls intervals.
WaitPolls == 2
\* largest timeout_s (in ticks) handed to wait_for_clip_change directly
MaxTimeout == 5
\* writes to the clipboard by other programs while on_hotkey invocations run
MaxWrites == 1
\* writes to the clipboard by other programs around a watched wait
MaxWatchedWrites == 2
\* calls of SapiNaturalSpeaker.speak by a client of the class
MaxCalls == 2
\* SAPI voice tokens installed
MaxVoices == 3

\* the on_hotkey invocations: two, which may overlap
Handlers == {1, 2}

----------------------------------------------------------------------------
(* Program constants *)

MIN_CHARS_TO_SPEAK == 3
POLL_INTERVAL_TICKS == TicksPerPoll
CLIPBOARD_WAIT_TICKS == WaitPolls * POLL_INTERVAL_TICKS

None == <<"None">>

----------------------------------------------------------------------------
(* Text *)

SP  == " "
TAB == "\t"
CR  == "\r"
LF  == "\n"

\* the characters str.strip() removes and \s matches, among those modelled
Whitespace == {SP, TAB, CR, LF}

isspace(c) == c \in Whitespace

RECURSIVE lstrip(_)
lstrip(s) ==
    IF s # <<>> /\ isspace(Head(s)) THEN lstrip(Tail(s)) ELSE s

RECURSIVE rstrip(_)
rstrip(s) ==
    IF s # <<>> /\ isspace(s[Len(s)]) THEN rstrip(SubSeq(s, 1, Len(s) - 1)) ELSE s

strip(s) == rstrip(lstrip(s))

\* str.replace(old, new): leftmost non-overlapping occurrences
RECURSIVE replace(_, _, _)
replace(s, old, new) ==
    IF Len(s) < Len(old) THEN s
    ELSE IF SubSeq(s, 1, Len(old)) = old
         THEN new \o replace(SubSeq(s, Len(old) + 1, Len(s)), old, new)
         ELSE <<Head(s)>> \o replace(Tail(s), old, new)

\* length of the run of whitespace s starts with
RECURSIVE SpaceRun(_)
SpaceRun(s) ==
    IF s # <<>> /\ isspace(Head(s)) THEN 1 + SpaceRun(Tail(s)) ELSE 0

\* re.sub(r"\s{2,}", " ", s): every maximal run of two or more whitespace
\* characters becomes one space; a single whitespace character stays
RECURSIVE collapse(_)
collapse(s) ==
    IF s = <<>> THEN <<>>
    ELSE LET n == SpaceRun(s)
         IN  IF n >= 2
             THEN <<SP>> \o collapse(SubSeq(s, n + 1, Len(s)))
             ELSE <<Head(s)>> \o collapse(Tail(s))

\* faulty variant: the lone carriage return is not replaced
newlines_to_spaces_no_cr(s) ==
    replace(replace(s, <<CR, LF>>, <<SP>>), <<LF>>, <<SP>>)

\* the three replace calls of tidy_text
newlines_to_spaces(s) ==
    replace(replace(replace(s, <<CR, LF>>, <<SP>>), <<LF>>, <<SP>>), <<CR>>, <<SP>>)

tidy_text(s) ==
    IF s = <<>> THEN <<>>
    ELSE strip(collapse(newlines_to_spaces(strip(s))))

----------------------------------------------------------------------------
(* Texts of the model *)

TidyAlphabet == {SP, TAB, CR, LF, "a", "!"}

TidyInputs == UNION {[1..n -> TidyAlphabet] : n \in 0..MaxLen}

HelloRaw  == <<"H","e","l","l","o",CR,LF,"W","o","r","l","d",SP,SP,SP,"!">>
HelloTidy == <<"H","e","l","l","o",SP,"W","o","r","l","d",SP,"!">>
OldText   == <<"o","l","d",SP,"t","e","x","t">>
ShortRaw  == <<SP,"h","i",LF>>
Blank     == <<SP,CR,LF>>
EmptyText == <<>>

\* what the clipboard holds: no text format at all (None), or a text
HotkeyClipValues == {None, OldText, HelloRaw, ShortRaw, Blank}
WatchClipValues  == {None, EmptyText, OldText, HelloRaw}

\* baselines handed to wait_for_clip_change directly
WatchBaselines == {EmptyText, OldText, HelloRaw}

----------------------------------------------------------------------------
(* Clipboard *)

\* get_clipboard_text: the clipboard's text, or None when it holds no text
\* or when opening or reading it raises (ok = FALSE)
get_clipboard_text(ok) == IF ok THEN clip ELSE None

\* another program writes the clipboard
ClipWrite(v, limit) ==
    /\ clipVer < limit
    /\ v # clip
    /\ clip' = v
    /\ clipVer' = clipVer + 1
    /\ UNCHANGED <<hpc, baseline, timeout, elapsed, sleepLeft, new_text,
                   polls, readFailed, clipAtCapture, verSeen, enq>>
    /\ UNCHANGED <<qvars, wvars, tvars>>

SetClipboard(v) == ClipWrite(v, MaxWrites) /\ UNCHANGED chg

\* a text the watcher takes for new: non-empty and not the baseline
NewText(v, base) == v # None /\ v # <<>> /\ v # base

\* the same write, with the history of invocation 1's wait kept: the number
\* of writes during the wait, the time, poll count and value of the first of
\* them, and whether the clipboard held a new text at any time of the wait
SetClipboardWatched(v) ==
    /\ ClipWrite(v, MaxWatchedWrites)
    /\ chg' = IF hpc[1] \in {"loop", "sleep"}
              THEN [n     |-> chg.n + 1,
                    at    |-> IF chg.n = 0 THEN elapsed[1] ELSE chg.at,
                    polls |-> IF chg.n = 0 THEN polls[1] ELSE chg.polls,
                    val   |-> IF chg.n = 0 THEN v ELSE chg.val,
                    fresh |-> chg.fresh \/ NewText(v, baseline[1])]
              ELSE chg

----------------------------------------------------------------------------
(* wait_for_clip_change *)

\* faulty variant: the loop runs once more at the deadline
InWindowInclusive(e, T) == e <= T

\* while time.time() - start < timeout_s
InWindow(e, T) == e < T

\* if current and current != baseline
Changed(current, base) == current # None /\ current # <<>> /\ current # base

\* faulty variant: the watcher sleeps two intervals between polls
SleepTicksDouble == 2 * POLL_INTERVAL_TICKS

\* time.sleep(POLL_INTERVAL_SECONDS)
SleepTicks == POLL_INTERVAL_TICKS

\* one pass of the loop: the deadline test, the read, the comparison, and
\* either the return or the start of the sleep
wait_for_clip_change(h, ok) ==
    /\ hpc[h] = "loop"
    /\ IF InWindow(elapsed[h], timeout[h])
       THEN LET current == get_clipboard_text(ok)
            IN  /\ polls' = [polls EXCEPT ![h] = @ + 1]
                /\ readFailed' = [readFailed EXCEPT ![h] = @ \/ ~ok]
                /\ IF Changed(current, baseline[h])
                   THEN /\ new_text' = [new_text EXCEPT ![h] = current]
                        /\ verSeen' = [verSeen EXCEPT ![h] = clipVer]
                        /\ hpc' = [hpc EXCEPT ![h] = "returned"]
                        /\ UNCHANGED sleepLeft
                   ELSE /\ hpc' = [hpc EXCEPT ![h] = "sleep"]
                        /\ sleepLeft' = [sleepLeft EXCEPT ![h] = SleepTicks]
                        /\ UNCHANGED <<new_text, verSeen>>
       ELSE /\ new_text' = [new_text EXCEPT ![h] = None]
            /\ hpc' = [hpc EXCEPT ![h] = "returned"]
            /\ UNCHANGED <<polls, readFailed, verSeen, sleepLeft>>
    /\ UNCHANGED <<baseline, timeout, elapsed, clipAtCapture, enq, chg>>
    /\ UNCHANGED <<cvars, qvars, wvars, tvars>>

\* one tick of time passes: every sleeping invocation is one tick further,
\* and wakes at the loop head when its interval is over.  Time does not pass
\* while an invocation stands at the loop head or has just returned (a pass
\* of the loop and the rest of the callback take no time).
Tick ==
    /\ \E h \in Handlers : hpc[h] = "sleep"
    /\ \A h \in Handlers : hpc[h] \notin {"loop", "returned"}
    /\ elapsed' = [h \in Handlers |->
                      IF hpc[h] = "sleep" THEN elapsed[h] + 1 ELSE elapsed[h]]
    /\ sleepLeft' = [h \in Handlers |->
                      IF hpc[h] = "sleep" THEN sleepLeft[h] - 1 ELSE sleepLeft[h]]
    /\ hpc' = [h \in Handlers |->
                      IF hpc[h] = "sleep" /\ sleepLeft[h] = 1 THEN "loop" ELSE hpc[h]]
    /\ UNCHANGED <<baseline, timeout, new_text, polls, readFailed,
                   clipAtCapture, verSeen, enq, chg>>
    /\ UNCHANGED <<cvars, qvars, wvars, tvars>>

----------------------------------------------------------------------------
(* SapiNaturalSpeaker.speak *)

\* faulty variant: the length test is missing
SpeakableNoLength(text) == text # <<>>

\* if text and len(text) >= MIN_CHARS_TO_SPEAK
Speakable(text) == text # <<>> /\ Len(text) >= MIN_CHARS_TO_SPEAK

\* faulty variant: the newest text goes to the front of the queue
put_front(queue, text) == <<text>> \o queue

\* self._q.put(text)
put(queue, text) == Append(queue, text)

\* speak(text): self._q.put(text) when the text passes the test.  The call
\* and, when its text has the minimum length, the submission are recorded.
speak(text) ==
    /\ q' = IF Speakable(text) THEN put(q, text) ELSE q
    /\ lastCall' = text
    /\ ncalls' = ncalls + 1
    /\ submitted' = IF Len(text) >= MIN_CHARS_TO_SPEAK
                    THEN Append(submitted, text) ELSE submitted

----------------------------------------------------------------------------
(* main.on_hotkey *)

\* the hotkey facility invokes the callback, which captures the baseline:
\*   baseline = get_clipboard_text() or ""
\* and enters wait_for_clip_change(baseline, CLIPBOARD_WAIT_SECONDS).
\* Invocations are numbered in the order of their triggers.
on_hotkey_capture(h, ok) ==
    /\ hpc[h] = "idle"
    /\ \A g \in Handlers : g < h => hpc[g] # "idle"
    /\ LET r == get_clipboard_text(ok)
       IN  baseline' = [baseline EXCEPT ![h] =
                           IF r = None \/ r = <<>> THEN <<>> ELSE r]
    /\ timeout' = [timeout EXCEPT ![h] = CLIPBOARD_WAIT_TICKS]
    /\ elapsed' = [elapsed EXCEPT ![h] = 0]
    /\ hpc' = [hpc EXCEPT ![h] = "loop"]
    /\ clipAtCapture' = [clipAtCapture EXCEPT ![h] = clip]
    /\ readFailed' = [readFailed EXCEPT ![h] = ~ok]
    /\ UNCHANGED <<sleepLeft, new_text, polls, verSeen, enq, chg>>
    /\ UNCHANGED <<cvars, qvars, wvars, tvars>>

\* faulty variant: the raw clipboard text is spoken
cleaned_raw(text) == text

\* cleaned = tidy_text(new_text)
cleaned_of(text) == tidy_text(text)

\* the rest of the callback, once wait_for_clip_change has returned:
\*   if new_text: cleaned = tidy_text(new_text)
\*                if cleaned and len(cleaned) >= MIN_CHARS_TO_SPEAK:
\*                    speaker.speak(cleaned)
on_hotkey_finish(h) ==
    /\ hpc[h] = "returned"
    /\ hpc' = [hpc EXCEPT ![h] = "done"]
    /\ IF new_text[h] # None /\ new_text[h] # <<>>
       THEN LET cleaned == cleaned_of(new_text[h])
            IN  IF cleaned # <<>> /\ Len(cleaned) >= MIN_CHARS_TO_SPEAK
                THEN speak(cleaned)
                ELSE UNCHANGED qvars
       ELSE UNCHANGED qvars
    /\ enq' = [enq EXCEPT ![h] = SubSeq(q', Len(q) + 1, Len(q'))]
    /\ UNCHANGED <<baseline, timeout, elapsed, sleepLeft, new_text, polls,
                   readFailed, clipAtCapture, verSeen, chg>>
    /\ UNCHANGED <<cvars, wvars, tvars>>

----------------------------------------------------------------------------
(* SapiNaturalSpeaker._run: voice selection *)

UpperCase == <<"A","B","C","D","E","F","G","H","I","J","K","L","M",
               "N","O","P","Q","R","S","T","U","V","W","X","Y","Z">>
LowerCase == <<"a","b","c","d","e","f","g","h","i","j","k","l","m",
               "n","o","p","q","r","s","t","u","v","w","x","y","z">>

lower_char(c) ==
    IF \E k \in 1..Len(UpperCase) : UpperCase[k] = c
    THEN LowerCase[CHOOSE k \in 1..Len(UpperCase) : UpperCase[k] = c]
    ELSE c

\* str.lower()
lower(s) == [k \in 1..Len(s) |-> lower_char(s[k])]

\* sub in s
contains(sub, s) ==
    \E k \in 0..Len(s) : k + Len(sub) <= Len(s) /\ SubSeq(s, k + 1, k + Len(sub)) = sub

David    == <<"M","i","c","r","o","s","o","f","t",SP,"D","a","v","i","d">>
Natural2 == <<"M","i","c","r","o","s","o","f","t",SP,"N","a","t","u","r","a","l","-","I","I">>
Zira     == <<"M","i","c","r","o","s","o","f","t",SP,"Z","i","r","a">>
AriaUp   == <<"N","A","T","U","R","A","L",SP,"A","r","i","a">>

Descriptors == {David, Natural2, Zira, AriaUp}

\* the voice tokens installed: lists of distinct descriptors
VoiceLists ==
    {s \in UNION {[1..n -> Descriptors] : n \in 0..MaxVoices} :
        \A a, b \in 1..Len(s) : a # b => s[a] # s[b]}

\* natural_match_substr handed to the constructor
MatchConfigs == {<<"n","a","t","u","r","a","l">>, <<"Z","I","R","A">>,
                 <<"x","y","z">>, EmptyText}

\* __init__: self._match = (natural_match_substr or "").lower()
init_match(cfg) == lower(IF cfg = None THEN <<>> ELSE cfg)

\* if self._match and self._match in desc.lower()
token_matches(m, desc) == m # <<>> /\ contains(m, lower(desc))

\* faulty variant (the loop of voice_test.py): no break, the last match wins
after_match_no_break(i) == IF i < Len(tokens) THEN "scan" ELSE "assign"

\* selected = token; break
after_match(i) == "assign"

WorkerUnchangedHistory == UNCHANGED <<spoken, speakRaised>>

\* voice = win32com.client.Dispatch("SAPI.SpVoice"); an exception leaves
\* the try block through finally and ends the thread
Run_Dispatch(ok) ==
    /\ wpc = "dispatch"
    /\ wpc' = IF ok THEN "getvoices" ELSE "terminated"
    /\ UNCHANGED <<tokens, matchCfg, match, idx, selected, engineVoice, tuned, txt>>
    /\ WorkerUnchangedHistory
    /\ UNCHANGED <<cvars, hvars, qvars, tvars>>

\* selected = None; tokens = voice.GetVoices()
Run_GetVoices(ok) ==
    /\ wpc = "getvoices"
    /\ wpc' = IF ok THEN "scan" ELSE "terminated"
    /\ selected' = 0
    /\ idx' = 1
    /\ UNCHANGED <<tokens, matchCfg, match, engineVoice, tuned, txt>>
    /\ WorkerUnchangedHistory
    /\ UNCHANGED <<cvars, hvars, qvars, tvars>>

\* one pass of: for i in range(tokens.Count) (idx counts from 1)
Run_Scan(ok) ==
    /\ wpc = "scan"
    /\ IF idx > Len(tokens)
       THEN /\ wpc' = "assign"
            /\ UNCHANGED <<idx, selected>>
       ELSE IF ~ok
       THEN /\ wpc' = "terminated"
            /\ UNCHANGED <<idx, selected>>
       ELSE IF token_matches(match, tokens[idx])
       THEN /\ selected' = idx
            /\ wpc' = after_match(idx)
            /\ idx' = IF after_match(idx) = "scan" THEN idx + 1 ELSE idx
       ELSE /\ idx' = idx + 1
            /\ UNCHANGED <<wpc, selected>>
    /\ UNCHANGED <<tokens, matchCfg, match, engineVoice, tuned, txt>>
    /\ WorkerUnchangedHistory
    /\ UNCHANGED <<cvars, hvars, qvars, tvars>>

\* if selected: voice.Voice = selected; print(... voice.Voice.GetDescription())
\* outcome: "ok", or the assignment raises, or the read for the print raises
Run_Assign(outcome) ==
    /\ wpc = "assign"
    /\ IF selected = 0
       THEN /\ wpc' = "tune"
            /\ UNCHANGED engineVoice
       ELSE /\ engineVoice' = IF outcome = "assign_raises" THEN engineVoice ELSE selected
            /\ wpc' = IF outcome = "ok" THEN "tune" ELSE "terminated"
    /\ UNCHANGED <<tokens, matchCfg, match, idx, selected, tuned, txt>>
    /\ WorkerUnchangedHistory
    /\ UNCHANGED <<cvars, hvars, qvars, tvars>>

\* try: voice.Rate = SAPI_RATE; voice.Volume = SAPI_VOLUME
\* except Exception: pass
Run_Tune(ok) ==
    /\ wpc = "tune"
    /\ tuned' = ok
    /\ wpc' = "get"
    /\ UNCHANGED <<tokens, matchCfg, match, idx, selected, engineVoice, txt>>
    /\ WorkerUnchangedHistory
    /\ UNCHANGED <<cvars, hvars, qvars, tvars>>

----------------------------------------------------------------------------
(* SapiNaturalSpeaker._run: worker loop *)

\* txt = self._q.get(timeout=0.1); on Empty the loop continues.  With a text
\* the engine's Speak is invoked (and recorded).
Run_Get ==
    /\ wpc = "get"
    /\ IF q = <<>>
       THEN UNCHANGED <<q, wpc, txt, spoken>>
       ELSE /\ txt' = Head(q)
            /\ q' = Tail(q)
            /\ spoken' = Append(spoken, Head(q))
            /\ wpc' = "speaking"
    /\ UNCHANGED <<tokens, matchCfg, match, idx, selected, engineVoice, tuned,
                   speakRaised, lastCall, ncalls, submitted>>
    /\ UNCHANGED <<cvars, hvars, tvars>>

\* voice.Speak(txt) returns, or raises and the exception is passed over
Run_SpeakEnd(ok) ==
    /\ wpc = "speaking"
    /\ wpc' = "get"
    /\ speakRaised' = (speakRaised \/ ~ok)
    /\ UNCHANGED <<tokens, matchCfg, match, idx, selected, engineVoice, tuned,
                   txt, spoken>>
    /\ UNCHANGED <<cvars, hvars, qvars, tvars>>

\* a client of the class calls speaker.speak(text)
SpeakInputs == {EmptyText, <<"h","i">>, <<"a","b","c">>, HelloTidy}

Client_speak(text) ==
    /\ ncalls < MaxCalls
    /\ speak(text)
    /\ UNCHANGED <<cvars, hvars, wvars, tvars>>

----------------------------------------------------------------------------
(* A caller of tidy_text: cleans a text, then cleans the result again *)

Tidy_call ==
    /\ tidyPc = "in"
    /\ tidyOut' = tidy_text(tidyIn)
    /\ tidyPc' = "out"
    /\ UNCHANGED <<tidyIn, tidyOut2>>
    /\ UNCHANGED <<cvars, hvars, qvars, wvars>>

Tidy_again ==
    /\ tidyPc = "out"
    /\ tidyOut2' = tidy_text(tidyOut)
    /\ tidyPc' = "again"
    /\ UNCHANGED <<tidyIn, tidyOut>>
    /\ UNCHANGED <<cvars, hvars, qvars, wvars>>

----------------------------------------------------------------------------
(* Initial states *)

ClipInit == clipVer = 0

HandlersInit ==
    /\ hpc = [h \in Handlers |-> "idle"]
    /\ baseline = [h \in Handlers |-> <<>>]
    /\ timeout = [h \in Handlers |-> 0]
    /\ elapsed = [h \in Handlers |-> 0]
    /\ sleepLeft = [h \in Handlers |-> 0]
    /\ new_text = [h \in Handlers |-> None]
    /\ polls = [h \in Handlers |-> 0]
    /\ readFailed = [h \in Handlers |-> FALSE]
    /\ clipAtCapture = [h \in Handlers |-> None]
    /\ verSeen = [h \in Handlers |-> 0]
    /\ enq = [h \in Handlers |-> <<>>]
    /\ chg = [n |-> 0, at |-> 0, polls |-> 0, val |-> None, fresh |-> FALSE]

\* SapiNaturalSpeaker.__init__: an empty queue
QueueInit ==
    /\ q = <<>>
    /\ lastCall = <<>>
    /\ ncalls = 0
    /\ submitted = <<>>

\* SapiNaturalSpeaker.__init__ with the worker thread started
WorkerInit(cfg, voices) ==
    /\ wpc = "dispatch"
    /\ tokens = voices
    /\ matchCfg = cfg
    /\ match = init_match(cfg)
    /\ idx = 1
    /\ selected = 0
    /\ engineVoice = 0
    /\ tuned = FALSE
    /\ txt = <<>>
    /\ spoken = <<>>
    /\ speakRaised = FALSE

TidyInit(s) ==
    /\ tidyPc = "in"
    /\ tidyIn = s
    /\ tidyOut = <<>>
    /\ tidyOut2 = <<>>

----------------------------------------------------------------------------
(* tidy_text on its own *)

InitTidy ==
    /\ clip = None /\ ClipInit /\ HandlersInit /\ QueueInit
    /\ WorkerInit(EmptyText, <<>>)
    /\ \E s \in TidyInputs \cup {HelloRaw} : TidyInit(s)

NextTidy == Tidy_call \/ Tidy_again

SpecTidy == InitTidy /\ [][NextTidy]_vars

----------------------------------------------------------------------------
(* wait_for_clip_change(baseline, timeout_s) on its own, as invocation 1 *)

InitWatch ==
    /\ clip \in WatchClipValues /\ ClipInit /\ QueueInit
    /\ WorkerInit(EmptyText, <<>>) /\ TidyInit(<<>>)
    /\ hpc = [h \in Handlers |-> IF h = 1 THEN "loop" ELSE "idle"]
    /\ baseline \in {[h \in Handlers |-> IF h = 1 THEN b ELSE <<>>] : b \in WatchBaselines}
    /\ timeout \in {[h \in Handlers |-> IF h = 1 THEN T ELSE 0] : T \in 0..MaxTimeout}
    /\ elapsed = [h \in Handlers |-> 0]
    /\ sleepLeft = [h \in Handlers |-> 0]
    /\ new_text = [h \in Handlers |-> None]
    /\ polls = [h \in Handlers |-> 0]
    /\ readFailed = [h \in Handlers |-> FALSE]
    /\ clipAtCapture = [h \in Handlers |-> IF h = 1 THEN clip ELSE None]
    /\ verSeen = [h \in Handlers |-> 0]
    /\ enq = [h \in Handlers |-> <<>>]
    /\ chg = [n |-> 0, at |-> 0, polls |-> 0, val |-> None,
              fresh |-> NewText(clip, baseline[1])]

Watch_step == \E h \in Handlers, ok \in BOOLEAN : wait_for_clip_change(h, ok)

NextWatch ==
    \/ Watch_step
    \/ Tick
    \/ \E v \in WatchClipValues : SetClipboardWatched(v)

SpecWatch ==
    InitWatch /\ [][NextWatch]_vars /\ WF_vars(Watch_step) /\ WF_vars(Tick)

----------------------------------------------------------------------------
(* The hotkey callback: clipboard, on_hotkey invocations, the queue *)

InitHotkey ==
    /\ clip \in HotkeyClipValues /\ ClipInit /\ HandlersInit /\ QueueInit
    /\ WorkerInit(EmptyText, <<>>) /\ TidyInit(<<>>)

NextHotkey ==
    \/ \E h \in Handlers, ok \in BOOLEAN : on_hotkey_capture(h, ok)
    \/ Watch_step
    \/ Tick
    \/ \E h \in Handlers : on_hotkey_finish(h)
    \/ \E v \in HotkeyClipValues : SetClipboard(v)

SpecHotkey == InitHotkey /\ [][NextHotkey]_vars

----------------------------------------------------------------------------
(* The speaker: the worker thread and the clients of speak *)

Run_init ==
    \/ \E ok \in BOOLEAN : Run_Dispatch(ok)
    \/ \E ok \in BOOLEAN : Run_GetVoices(ok)
    \/ \E ok \in BOOLEAN : Run_Scan(ok)
    \/ \E outcome \in {"ok", "assign_raises", "describe_raises"} : Run_Assign(outcome)
    \/ \E ok \in BOOLEAN : Run_Tune(ok)

Run_loop == Run_Get \/ \E ok \in BOOLEAN : Run_SpeakEnd(ok)

NextWorker ==
    \/ Run_init
    \/ Run_loop
    \/ \E text \in SpeakInputs : Client_speak(text)

\* NATURAL_MATCH_SUBSTR = "natural"
NATURAL_MATCH_SUBSTR == <<"n","a","t","u","r","a","l">>

\* main: speaker = SapiNaturalSpeaker(), on a machine with three voices
InitWorker ==
    /\ clip = None /\ ClipInit /\ HandlersInit /\ QueueInit /\ TidyInit(<<>>)
    /\ WorkerInit(NATURAL_MATCH_SUBSTR, <<David, Natural2, Zira>>)

\* the worker thread keeps being scheduled, and a Speak call ends
SpecWorker ==
    InitWorker /\ [][NextWorker]_vars /\ WF_vars(Run_init) /\ WF_vars(Run_loop)

\* SapiNaturalSpeaker(natural_match_substr) on a machine with any voices
InitVoices ==
    /\ clip = None /\ ClipInit /\ HandlersInit /\ QueueInit /\ TidyInit(<<>>)
    /\ \E cfg \in MatchConfigs \cup {None}, voices \in VoiceLists : WorkerInit(cfg, voices)

SpecVoices ==
    InitVoices /\ [][NextWorker]_vars /\ WF_vars(Run_init) /\ WF_vars(Run_loop)

----------------------------------------------------------------------------
(* Properties *)

IsPrefix(a, b) == Len(a) <= Len(b) /\ SubSeq(b, 1, Len(a)) = a

AllLongEnough(texts) ==
    \A k \in 1..Len(texts) : Len(texts[k]) >= MIN_CHARS_TO_SPEAK

\* the worker thread is in its loop (initialization is over)
InLoop == wpc \in {"get", "speaking"}

\* C1: the texts handed to Speak are, at all times, the first of the
\* submitted texts (those of length >= MIN_CHARS_TO_SPEAK) in submission
\* order, each once; and with the worker in its loop the n-th submitted text
\* is eventually handed to Speak, whether or not earlier Speak calls raised
\* and however many submissions arrive while a Speak call lasts.
C1_SpokenInOrderExactlyOnce ==
    /\ [](IsPrefix(spoken, submitted))
    /\ \A n \in 1..MaxCalls :
          (InLoop /\ Len(submitted) >= n) ~> (Len(spoken) >= n)

\* C1 witness: two different texts spoken in submission order, nothing
\* left over, after a Speak call that raised
C1_Witness ==
    /\ wpc = "get" /\ speakRaised /\ q = <<>>
    /\ Len(spoken) >= 2 /\ spoken = submitted /\ spoken[1] # spoken[2]

\* C2: every text in the queue and every text handed to Speak has at least
\* MIN_CHARS_TO_SPEAK characters, and a call of speak with a shorter (or
\* empty) text leaves the queue as it was.
C2_ShortNeverReachesSpeak ==
    /\ [](AllLongEnough(q) /\ AllLongEnough(spoken))
    /\ [][(ncalls' = ncalls + 1 /\ Len(lastCall') < MIN_CHARS_TO_SPEAK) => q' = q]_vars

\* C2 witness: speak was last called with a two-character text while the
\* worker had already spoken, and nothing is queued
C2_Witness ==
    /\ lastCall = <<"h","i">> /\ ncalls >= 2
    /\ spoken # <<>> /\ q = <<>> /\ wpc = "get"

\* the wait of invocation 1 has ended
Returned == hpc[1] = "returned"

\* the clipboard held the baseline when the wait began, was written once
\* during the wait, at a time before the timeout, with a new text, and no
\* read of it failed
OneChangeScenario ==
    /\ clipAtCapture[1] = baseline[1]
    /\ chg.n = 1
    /\ NewText(chg.val, baseline[1])
    /\ chg.at < timeout[1]
    /\ ~readFailed[1]

\* the polls a wait of T ticks makes when none finds a new text: at
\* 0, P, 2P, ... below T
TotalPolls(T) == (T + POLL_INTERVAL_TICKS - 1) \div POLL_INTERVAL_TICKS

FoundWithinOneInterval ==
    /\ new_text[1] = chg.val
    /\ elapsed[1] - chg.at <= POLL_INTERVAL_TICKS

\* C3 as stated: whenever the clipboard changes from B to C at a time
\* t < T, the wait returns C, within one poll interval of t.
C3_AnyChangeBeforeTimeoutFound ==
    (Returned /\ OneChangeScenario) => FoundWithinOneInterval

\* C3 as amended: when the change comes before the last poll of the wait,
\* the wait returns C within one poll interval of t; when it comes after the
\* last poll (and before T) the wait returns None.
C3_ChangeBeforeLastPollFound ==
    (Returned /\ OneChangeScenario) =>
        IF chg.polls < TotalPolls(timeout[1])
        THEN FoundWithinOneInterval
        ELSE new_text[1] = None

\* C3 witness: a change some time into the wait, found one interval later
C3_Witness ==
    /\ Returned /\ OneChangeScenario
    /\ chg.at > 0 /\ chg.polls < TotalPolls(timeout[1])
    /\ new_text[1] = HelloRaw /\ baseline[1] = OldText
    /\ elapsed[1] = chg.at + POLL_INTERVAL_TICKS

\* C4: when the clipboard never holds a new text during the wait, the wait
\* returns None, no earlier than T after its start and earlier than T plus
\* one poll interval; and every wait ends.
C4_TimesOutWithinOneInterval ==
    /\ []((Returned /\ ~chg.fresh) =>
            /\ new_text[1] = None
            /\ elapsed[1] >= timeout[1]
            /\ elapsed[1] < timeout[1] + POLL_INTERVAL_TICKS)
    /\ <>Returned

\* C4 witness: a wait of three ticks over a clipboard that was written but
\* never held a new text ends with None after four ticks
C4_Witness ==
    /\ Returned /\ ~chg.fresh /\ chg.n >= 1
    /\ timeout[1] = POLL_INTERVAL_TICKS + 1
    /\ elapsed[1] = 2 * POLL_INTERVAL_TICKS
    /\ new_text[1] = None

\* what an invocation whose wait returned new_text[h] is to enqueue
ExpectedUtterances(h) ==
    IF new_text[h] # None /\ Len(tidy_text(new_text[h])) >= MIN_CHARS_TO_SPEAK
    THEN <<tidy_text(new_text[h])>>
    ELSE <<>>

\* C5: a finished invocation has enqueued exactly the cleaned form of the
\* text its wait returned when that form has at least MIN_CHARS_TO_SPEAK
\* characters ("Hello\r\nWorld   !" gives "Hello World !"), and nothing when
\* the wait timed out or the cleaned form is empty or shorter; an unfinished
\* invocation has enqueued nothing, and nothing else is in the queue.
C5_OneCleanedUtterancePerTrigger ==
    /\ \A h \in Handlers :
          /\ hpc[h] = "done" => enq[h] = ExpectedUtterances(h)
          /\ hpc[h] # "done" => enq[h] = <<>>
          /\ (hpc[h] = "done" /\ new_text[h] = HelloRaw) => enq[h] = <<HelloTidy>>
          /\ Len(enq[h]) <= 1
    /\ Len(q) = Len(enq[1]) + Len(enq[2])

\* C5 witness: the end-to-end scenario (baseline "", the clipboard becomes
\* "Hello\r\nWorld   !") next to an invocation that enqueued nothing
C5_Witness ==
    /\ hpc[1] = "done" /\ baseline[1] = <<>> /\ new_text[1] = HelloRaw
    /\ hpc[2] = "done" /\ enq[2] = <<>>
    /\ q = <<HelloTidy>>

NoNewline(s) == \A k \in 1..Len(s) : s[k] # LF /\ s[k] # CR

NoSpaceRun(s) == \A k \in 1..Len(s) : (k < Len(s) /\ s[k] = SP) => s[k + 1] # SP

Trimmed(s) == s = <<>> \/ (~isspace(s[1]) /\ ~isspace(s[Len(s)]))

\* C6: the result of tidy_text holds no "\n" and no "\r", no two spaces in
\* a row and no whitespace at either end, and cleaning it again gives it back.
C6_TidyNormalForm ==
    /\ tidyPc \in {"out", "again"} =>
          NoNewline(tidyOut) /\ NoSpaceRun(tidyOut) /\ Trimmed(tidyOut)
    /\ tidyPc = "again" => tidyOut2 = tidyOut

\* C6 witness: the text of the end-to-end scenario, cleaned twice
C6_Witness ==
    tidyPc = "again" /\ tidyIn = HelloRaw /\ tidyOut = HelloTidy

\* the configured substring as a text
ConfiguredMatch == IF matchCfg = None THEN <<>> ELSE matchCfg

\* desc contains m, letters compared without regard to case
ContainsIgnoringCase(m, desc) ==
    \E k \in 0..Len(desc) :
        /\ k + Len(m) <= Len(desc)
        /\ \A j \in 1..Len(m) : lower_char(desc[k + j]) = lower_char(m[j])

\* the first token whose description contains the configured substring;
\* 0 (the engine's default voice) when there is none
FirstContaining ==
    LET hits == {k \in 1..Len(tokens) : ContainsIgnoringCase(ConfiguredMatch, tokens[k])}
    IN  IF hits = {} THEN 0 ELSE CHOOSE k \in hits : \A j \in hits : k <= j

\* C7 as stated: for any configured substring, once the worker is in its
\* loop the active voice is the first token whose description contains the
\* substring, the default voice when there is none; nothing is spoken before.
C7_FirstContainingSelected ==
    /\ (InLoop /\ matchCfg # None) => engineVoice = FirstContaining
    /\ spoken # <<>> => InLoop

\* C7 as amended: the same for a non-empty substring; with an empty (or no)
\* substring the default voice stays active.
C7_FirstContainingNonEmptySelected ==
    /\ InLoop => engineVoice = IF ConfiguredMatch = <<>> THEN 0 ELSE FirstContaining
    /\ spoken # <<>> => InLoop

\* C7 witness: the three voices of the example with "natural", a text spoken
C7_Witness ==
    /\ InLoop /\ tokens = <<David, Natural2, Zira>>
    /\ matchCfg = NATURAL_MATCH_SUBSTR
    /\ engineVoice = 2 /\ spoken # <<>>

\* C8: the worker thread never ends, whatever raises during initialization.
C8_WorkerNeverTerminates == wpc # "terminated"

\* C9: a text enqueued by an invocation differs from what the clipboard
\* actually held when the invocation captured its baseline.
C9_NeverSpeaksOldClipboard ==
    \A h \in Handlers : enq[h] # <<>> => new_text[h] # clipAtCapture[h]

\* C10: two invocations, none of whose clipboard reads failed, never both
\* enqueue the text of the same clipboard write.
C10_OncePerClipboardChange ==
    \A a, b \in Handlers :
        (a # b /\ ~readFailed[a] /\ ~readFailed[b] /\ enq[a] # <<>> /\ enq[b] # <<>>)
            => verSeen[a] # verSeen[b]

=============================================================================
